---- MODULE Spec2Model ----
(***************************************************************************)
(* Model of src/src/MotorGrid.jsx: the WebSerial connection manager of the *)
(* 9-motor controller.  React state (isConnected, port, writer, speed,     *)
(* log) is committed at the end of each synchronous chunk of a handler;    *)
(* every `await` of the source is a point where other events interleave.   *)
(* Strings are modelled as sequences of string tokens, so the template     *)
(* `ON ${i} ${speed}` is <<"ON", ToString(i), ToString(speed)>>.           *)
(* The transport (a WebSerial port with its streams) is the environment:   *)
(* every call into it may fail, a stream settles its queued writes oldest  *)
(* first, and a failed write errors the stream.                            *)
(***************************************************************************)
EXTENDS Integers, Sequences, FiniteSets, TLC

\* ------------------------------------------------------------- bounds
MaxConnects == 2      \* connect() invocations (each selects its own port)
MaxDisconnects == 1   \* disconnect() invocations
MaxLog == 4           \* logLine calls in one behaviour
MaxMotor == 1         \* motor buttons pressed in Spec and SpecLog (SpecCmd: all)
MaxCmds == 2          \* button sends in one behaviour of SpecCmd

\* ------------------------------------------------- program constants
NumMotors == 9        \* Array.from({ length: 9 })
MaxSpeed == 255       \* slider max
InitSpeed == 200      \* useState(200)
LogKeep == 200        \* prev.slice(0, 200)

Ports == 1..MaxConnects
Discs == 1..MaxDisconnects
Levels == {InitSpeed, MaxSpeed}
RxValues == {<<"ok", "\r", "\n">>}
\* new Date().toLocaleTimeString(): the session runs within one second
TimeOfDay == "12:00:00"
Whitespace == {" ", "\n", "\r", "\t"}

VARIABLES
  isConnected,  \* useState(false)
  port,         \* useState(null): 0 is null, else the port's id
  writer,       \* useState(null): 0 is null, else the id of the writer's port
  speed,        \* useState(200)
  log,          \* useState([]): newest first
  readerRef,    \* useRef(null): 0 is null, else the id of the reader's port
  conn,         \* position of each connect() invocation
  disc,         \* position and closure (writer, port) of each disconnect(),
                \* with the history of the steps it has taken (did)
  popen,        \* per port: "fresh", "open" or "closed"
  wlock,        \* per port: the lock of p.writable is held by a writer
  rlock,        \* per port: the lock of the decoded stream is held by a reader
  rl,           \* per port: the read loop: "none", "reading" or "ended"
  werr,         \* per port: the writable stream is errored
  queue,        \* per port: chunks handed to writer.write, not yet settled
  wire,         \* per port: chunks the transport received, in that order
  calls,        \* history: every sendLine call that passed the writer check
  nlog,         \* history: logLine calls so far
  thrown        \* history: the last operation was a sendLine that threw

vars == <<isConnected, port, writer, speed, log, readerRef, conn, disc, popen,
          wlock, rlock, rl, werr, queue, wire, calls, nlog, thrown>>

react == <<isConnected, port, writer>>
transport == <<popen, wlock, rlock, rl, werr, queue, wire>>

\* ------------------------------------------------------------ helpers
Min(a, b) == IF a < b THEN a ELSE b

\* prev.slice(0, n)
Slice(s, n) == SubSeq(s, 1, Min(Len(s), n))

\* `${new Date().toLocaleTimeString()}  ${text}`
Stamp(text) == <<TimeOfDay>> \o text

LogLineAtEnd(prev, entry) == Append(Slice(prev, LogKeep), entry)
LogLineKeepAll(prev, entry) == <<entry>> \o prev

\* logLine's updater: [entry, ...prev.slice(0, 200)]
LogLine(prev, entry) == <<entry>> \o Slice(prev, LogKeep)

\* the log after logLine(text) on log lg
Logged(lg, text) == LogLine(lg, Stamp(text))

\* String.prototype.trim over tokens
RECURSIVE TrimLeft(_)
TrimLeft(s) ==
  IF s # <<>> /\ Head(s) \in Whitespace THEN TrimLeft(Tail(s)) ELSE s
RECURSIVE TrimRight(_)
TrimRight(s) ==
  IF s # <<>> /\ s[Len(s)] \in Whitespace
  THEN TrimRight(SubSeq(s, 1, Len(s) - 1)) ELSE s
Trim(s) == TrimRight(TrimLeft(s))

\* `ON ${i} ${speed}`, `OFF ${i}`, "OFF ALL"
EncodeRunSwapped(i, level) == <<"ON", ToString(level), ToString(i)>>
EncodeRun(i, level) == <<"ON", ToString(i), ToString(level)>>
EncodeStop(i) == <<"OFF", ToString(i)>>
OffAll == <<"OFF", "ALL">>

TxText(line) == <<"TX:">> \o line
RxText(value) == <<"RX:">> \o Trim(value)
ConnectedText == <<"Connected to Arduino.">>
DisconnectedText == <<"Disconnected.">>
ConnectErrorText(msg) == <<"Connect error:", msg>>

\* ---------------------------------------------------------------- Init
Init ==
  /\ isConnected = FALSE
  /\ port = 0
  /\ writer = 0
  /\ speed = InitSpeed
  /\ log = <<>>
  /\ readerRef = 0
  /\ conn = [k \in Ports |-> "idle"]
  /\ disc = [d \in Discs |-> [pc |-> "idle", w |-> 0, p |-> 0, did |-> <<>>]]
  /\ popen = [p \in Ports |-> "fresh"]
  /\ wlock = [p \in Ports |-> FALSE]
  /\ rlock = [p \in Ports |-> FALSE]
  /\ rl = [p \in Ports |-> "none"]
  /\ werr = [p \in Ports |-> FALSE]
  /\ queue = [p \in Ports |-> <<>>]
  /\ wire = [p \in Ports |-> <<>>]
  /\ calls = <<>>
  /\ nlog = 0
  /\ thrown = FALSE

\* The bound on a behaviour: an operation starts only if the logLine calls it
\* and the operations in flight can still make fit in MaxLog (connect() logs
\* at most twice, a disconnect() in flight logs "Disconnected." once more).
InFlightConnects == {k \in Ports : conn[k] \in {"requestPort", "open"}}
InFlightDisconnects == {d \in Discs : disc[d].pc \in {"write", "close"}}
Reserved == 2 * Cardinality(InFlightConnects) + Cardinality(InFlightDisconnects)
Fits(n) == nlog + Reserved + n <= MaxLog

\* ------------------------------------------------------------- connect
\* The Connect button is rendered while !isConnected; the click runs connect()
\* up to `await navigator.serial.requestPort()`.
ConnectClick ==
  /\ thrown' = FALSE
  /\ ~isConnected
  /\ Fits(2)
  /\ \E k \in Ports :
       /\ conn[k] = "idle"
       /\ \A j \in Ports : j < k => conn[j] # "idle"
       /\ conn' = [conn EXCEPT ![k] = "requestPort"]
  /\ UNCHANGED <<react, speed, log, readerRef, disc, transport, calls, nlog>>

\* requestPort() rejects (no port chosen): catch, logLine("Connect error: ...").
RequestPortRefused(k) ==
  /\ thrown' = FALSE
  /\ conn[k] = "requestPort"
  /\ conn' = [conn EXCEPT ![k] = "refused"]
  /\ log' = Logged(log, ConnectErrorText("No port selected by the user."))
  /\ nlog' = nlog + 1
  /\ UNCHANGED <<react, speed, readerRef, disc, transport, calls>>

\* requestPort() resolves with port k: p.open({ baudRate: 115200 }) is called.
RequestPortChosen(k) ==
  /\ thrown' = FALSE
  /\ conn[k] = "requestPort"
  /\ conn' = [conn EXCEPT ![k] = "open"]
  /\ UNCHANGED <<react, speed, log, readerRef, disc, transport, calls, nlog>>

\* p.open() rejects: catch, logLine("Connect error: ...").
OpenFailed(k) ==
  /\ thrown' = FALSE
  /\ conn[k] = "open"
  /\ conn' = [conn EXCEPT ![k] = "openFailed"]
  /\ log' = Logged(log, ConnectErrorText("Failed to open serial port."))
  /\ nlog' = nlog + 1
  /\ UNCHANGED <<react, speed, readerRef, disc, transport, calls>>

\* p.open() resolves, setPort(p), then p.writable.getWriter() throws.
OpenedWriterFailed(k) ==
  /\ thrown' = FALSE
  /\ conn[k] = "open"
  /\ conn' = [conn EXCEPT ![k] = "writerFailed"]
  /\ popen' = [popen EXCEPT ![k] = "open"]
  /\ port' = k
  /\ log' = Logged(log, ConnectErrorText("getWriter"))
  /\ nlog' = nlog + 1
  /\ UNCHANGED <<isConnected, writer, speed, readerRef, disc, wlock, rlock, rl,
                 werr, queue, wire, calls>>

\* p.open() resolves, the state is set and "Connected to Arduino." logged, then
\* p.readable.pipeTo(...) or getReader() throws: catch, logLine("Connect error").
OpenedReaderFailed(k) ==
  /\ thrown' = FALSE
  /\ conn[k] = "open"
  /\ conn' = [conn EXCEPT ![k] = "readerFailed"]
  /\ popen' = [popen EXCEPT ![k] = "open"]
  /\ wlock' = [wlock EXCEPT ![k] = TRUE]
  /\ port' = k
  /\ writer' = k
  /\ isConnected' = TRUE
  /\ log' = Logged(Logged(log, ConnectedText), ConnectErrorText("readable"))
  /\ nlog' = nlog + 2
  /\ UNCHANGED <<speed, readerRef, disc, rlock, rl, werr, queue, wire, calls>>

\* p.open() resolves and the rest of connect() runs: the state is set, the
\* reader is stored in readerRef and the read loop reaches its first read().
Opened(k) ==
  /\ thrown' = FALSE
  /\ conn[k] = "open"
  /\ conn' = [conn EXCEPT ![k] = "ok"]
  /\ popen' = [popen EXCEPT ![k] = "open"]
  /\ wlock' = [wlock EXCEPT ![k] = TRUE]
  /\ rlock' = [rlock EXCEPT ![k] = TRUE]
  /\ rl' = [rl EXCEPT ![k] = "reading"]
  /\ port' = k
  /\ writer' = k
  /\ isConnected' = TRUE
  /\ readerRef' = k
  /\ log' = Logged(log, ConnectedText)
  /\ nlog' = nlog + 1
  /\ UNCHANGED <<speed, disc, werr, queue, wire, calls>>

\* ---------------------------------------------------------------- send
\* The intent behind a line: Run(id, level), Stop(id) or Stop(All) (id 0).
Run(i, level) == [kind |-> "Run", id |-> i, level |-> level]
Stop(i) == [kind |-> "Stop", id |-> i, level |-> 0]

\* `if (!writer) throw new Error("Not connected")`, negated
SendGuardNone(w) == TRUE
SendGuard(w) == w # 0

\* logLine(`TX: ${line}`)
SendLogNothing(lg, line) == lg
SendLog(lg, line) == Logged(lg, TxText(line))

\* writer.write(...) hands the chunk to the stream's queue, behind the others
EnqueueFront(q, c) == <<c>> \o q
Enqueue(q, c) == Append(q, c)

\* enc.encode(line + "\n")
Bytes(line) == line \o <<"\n">>

\* The part of sendLine(line) after the writer check, called with writer w
\* for disconnect d (0: a button).  A null writer makes write() throw after
\* the line is logged.
SendLine(w, line, cmd, d) ==
  /\ log' = SendLog(log, line)
  /\ nlog' = nlog + 1
  /\ IF w # 0
     THEN /\ calls' = Append(calls, [line |-> line, w |-> w, cmd |-> cmd,
                                     d |-> d, st |-> "pending"])
          /\ queue' = [queue EXCEPT ![w] =
                         Enqueue(@, [n |-> Len(calls) + 1,
                                     bytes |-> Bytes(line), d |-> d])]
     ELSE UNCHANGED <<calls, queue>>

\* A button's send: sendLine(line).catch(() => {})
ButtonSend(line, cmd) ==
  /\ IF SendGuard(writer)
     THEN /\ Fits(1)
          /\ SendLine(writer, line, cmd, 0)
          /\ thrown' = FALSE
     ELSE /\ thrown' = TRUE
          /\ UNCHANGED <<log, nlog, calls, queue>>
  /\ UNCHANGED <<react, speed, readerRef, conn, disc, popen, wlock, rlock, rl,
                 werr, wire>>

\* The buttons rendered: idx = i + 1 for i < 9
AllMotors == 1..NumMotors

\* onMouseDown / onTouchStart of MotorButton idx.  The button is disabled
\* while !isConnected, which stops mouse clicks but not every event that is
\* wired to the handlers (touch, mouse leave), so they run in any state.
handleDown(i) ==
  /\ i \in AllMotors
  /\ ButtonSend(EncodeRun(i, speed), Run(i, speed))

\* onMouseUp / onMouseLeave / onTouchEnd of MotorButton idx
handleUp(i) ==
  /\ i \in AllMotors
  /\ ButtonSend(EncodeStop(i), Stop(i))

\* onClick of Stop All, which is disabled while !isConnected
StopAll ==
  /\ isConnected
  /\ ButtonSend(OffAll, Stop(0))

\* onChange of the slider: setSpeed(parseInt(e.target.value))
SetSpeedLogs(v) ==
  /\ thrown' = FALSE
  /\ v # speed
  /\ Fits(1)
  /\ speed' = v
  /\ log' = Logged(log, <<"Speed:", ToString(v)>>)
  /\ nlog' = nlog + 1
  /\ UNCHANGED <<react, readerRef, conn, disc, transport, calls>>
SetSpeed(v) ==
  /\ thrown' = FALSE
  /\ v # speed
  /\ speed' = v
  /\ UNCHANGED <<react, log, readerRef, conn, disc, transport, calls, nlog>>

\* ------------------------------------------------------------ read loop
\* reader.read() resolves with a chunk: `if (value) logLine(RX: value.trim())`
ReadChunk(p, value) ==
  /\ thrown' = FALSE
  /\ rl[p] = "reading"
  /\ popen[p] = "open"
  /\ Fits(1)
  /\ log' = IF value # <<>> THEN Logged(log, RxText(value)) ELSE log
  /\ nlog' = IF value # <<>> THEN nlog + 1 ELSE nlog
  /\ UNCHANGED <<react, speed, readerRef, conn, disc, transport, calls>>

\* `if (done) break` and `catch {}` of the read loop: the log after them
ReadCatchLogs(lg) == Logged(lg, <<"Read error:", "read failed">>)
ReadCatch(lg) == lg

\* reader.read() resolves with done (break) or rejects (catch {}).
ReadEnd(p) ==
  /\ thrown' = FALSE
  /\ rl[p] = "reading"
  /\ rl' = [rl EXCEPT ![p] = "ended"]
  /\ log' = ReadCatch(log)
  /\ UNCHANGED <<react, speed, readerRef, conn, disc, popen, wlock, rlock,
                 werr, queue, wire, calls, nlog>>

\* ---------------------------------------------------------- disconnect
\* React state after disconnect's second try block: set unconditionally.
ClearedKeepsWriter(ok) == [isConnected |-> FALSE, port |-> 0, writer |-> writer]
ClearedOnlyIfOk(ok) ==
  IF ok THEN [isConnected |-> FALSE, port |-> 0, writer |-> 0]
  ELSE [isConnected |-> isConnected, port |-> port, writer |-> writer]
Cleared(ok) == [isConnected |-> FALSE, port |-> 0, writer |-> 0]

\* setWriter(null); setPort(null); setIsConnected(false); logLine("Disconnected.")
\* after k logLine calls of the same chunk that left the log lg and after the
\* steps done.
Finalize(d, ok, lg, k, res, done) ==
  /\ isConnected' = Cleared(ok).isConnected
  /\ port' = Cleared(ok).port
  /\ writer' = Cleared(ok).writer
  /\ log' = Logged(lg, DisconnectedText)
  /\ nlog' = nlog + k + 1
  /\ disc' = [disc EXCEPT ![d].pc = res, ![d].did = Append(done, "reset")]

\* readerRef.current?.releaseLock() may throw only while a read is pending.
MayThrow == readerRef # 0 /\ rlock[readerRef] /\ rl[readerRef] = "reading"

\* The steps of disconnect() that `?.` skips on null are not taken.
Step(cond, done, name) == IF cond THEN Append(done, name) ELSE done

\* disconnect() from its second try block to `await port?.close()`, for
\* disconnect d with closure (w, p) after the steps done: the reader's lock
\* is released (relOk) or releaseLock() throws.
Teardown(d, w, p, relOk, lg, k, done) ==
  /\ ~relOk => MayThrow
  /\ LET released == Step(readerRef # 0, done, "readerRelease")
     IN IF relOk
        THEN /\ rlock' = IF readerRef # 0
                         THEN [rlock EXCEPT ![readerRef] = FALSE] ELSE rlock
             /\ rl' = IF MayThrow THEN [rl EXCEPT ![readerRef] = "ended"] ELSE rl
             /\ IF p # 0
                THEN /\ disc' = [disc EXCEPT ![d] =
                                   [pc |-> "close", w |-> w, p |-> p,
                                    did |-> Append(released, "close")]]
                     /\ log' = lg
                     /\ nlog' = nlog + k
                     /\ UNCHANGED <<react, wlock>>
                ELSE /\ wlock' = IF w # 0 THEN [wlock EXCEPT ![w] = FALSE]
                                 ELSE wlock
                     /\ Finalize(d, TRUE, lg, k, "noPort",
                                 Step(w # 0, released, "writerRelease"))
        ELSE /\ UNCHANGED <<rlock, rl, wlock>>
             /\ Finalize(d, FALSE, lg, k, "releaseThrew", released)

\* The Disconnect button is rendered while isConnected; the click runs
\* disconnect() up to `await sendLine("OFF ALL")`, or, when sendLine throws,
\* on to `await port?.close()`.
DisconnectClick ==
  /\ isConnected
  /\ Fits(2)
  /\ \E d \in Discs :
       /\ disc[d].pc = "idle"
       /\ \A j \in Discs : j < d => disc[j].pc # "idle"
       /\ IF SendGuard(writer) /\ writer # 0
          THEN /\ SendLine(writer, OffAll, Stop(0), d)
               /\ disc' = [disc EXCEPT ![d] = [pc |-> "write", w |-> writer,
                                               p |-> port,
                                               did |-> <<"sendLine">>]]
               /\ thrown' = FALSE
               /\ UNCHANGED <<react, wlock, rlock, rl>>
          ELSE /\ \E relOk \in BOOLEAN :
                    IF SendGuard(writer)
                    THEN Teardown(d, writer, port, relOk,
                                  SendLog(log, OffAll), 1, <<"sendLine">>)
                    ELSE Teardown(d, writer, port, relOk, log, 0,
                                  <<"sendLine">>)
               /\ thrown' = ~SendGuard(writer)
               /\ UNCHANGED <<calls, queue>>
  /\ UNCHANGED <<speed, readerRef, conn, popen, werr, wire>>

\* ------------------------------------------------------- write channel
\* The stream settles the oldest queued chunk: written to the transport (ok)
\* or rejected, which errors the stream.
Settle(p, ok) ==
  /\ queue[p] # <<>>
  /\ ok => popen[p] = "open" /\ ~werr[p]
  /\ queue' = [queue EXCEPT ![p] = Tail(@)]
  /\ wire' = IF ok THEN [wire EXCEPT ![p] = Append(@, Head(queue[p]))] ELSE wire
  /\ werr' = IF ok THEN werr ELSE [werr EXCEPT ![p] = TRUE]
  /\ calls' = [calls EXCEPT ![Head(queue[p]).n].st =
                 IF ok THEN "written" ELSE "failed"]

\* `.catch(() => {})` of a button's send: the log after a rejected write
SendCatchLogs(lg) == Logged(lg, <<"Send error:", "write failed">>)
SendCatch(lg) == lg

\* A button's write settles; a rejection goes to `.catch(() => {})`.
SendSettled(p, ok) ==
  /\ thrown' = FALSE
  /\ Settle(p, ok)
  /\ Head(queue[p]).d = 0
  /\ log' = IF ok THEN log ELSE SendCatch(log)
  /\ UNCHANGED <<react, speed, readerRef, conn, disc, popen, wlock, rlock, rl,
                 nlog>>

\* The write of a disconnect()'s OFF ALL settles (`catch {}` swallows a
\* rejection) and disconnect() runs on to `await port?.close()`.
DisconnectWriteSettled(p, ok, relOk) ==
  /\ thrown' = FALSE
  /\ Settle(p, ok)
  /\ Head(queue[p]).d # 0
  /\ LET d == Head(queue[p]).d
     IN  Teardown(d, disc[d].w, disc[d].p, relOk, log, 0, disc[d].did)
  /\ UNCHANGED <<speed, readerRef, conn, popen>>

\* port.close() settles: resolved (then writer.releaseLock() runs) or
\* rejected (catch {}); either way the state is reset.
CloseSettled(d, ok) ==
  /\ thrown' = FALSE
  /\ disc[d].pc = "close"
  /\ ok => popen[disc[d].p] = "open"
  /\ popen' = IF ok THEN [popen EXCEPT ![disc[d].p] = "closed"] ELSE popen
  /\ wlock' = IF ok /\ disc[d].w # 0
              THEN [wlock EXCEPT ![disc[d].w] = FALSE] ELSE wlock
  /\ Finalize(d, ok, log, 0, IF ok THEN "closed" ELSE "closeFailed",
              Step(ok /\ disc[d].w # 0, disc[d].did, "writerRelease"))
  /\ UNCHANGED <<speed, readerRef, conn, rlock, rl, werr, queue, wire, calls>>

\* ----------------------------------------------------------------- Next
Motors == 1..MaxMotor

Next ==
  \/ ConnectClick
  \/ \E k \in Ports : RequestPortRefused(k)
  \/ \E k \in Ports : RequestPortChosen(k)
  \/ \E k \in Ports : OpenFailed(k)
  \/ \E k \in Ports : OpenedWriterFailed(k)
  \/ \E k \in Ports : OpenedReaderFailed(k)
  \/ \E k \in Ports : Opened(k)
  \/ \E i \in Motors : handleDown(i)
  \/ \E i \in Motors : handleUp(i)
  \/ StopAll
  \/ \E v \in Levels : SetSpeed(v)
  \/ \E p \in Ports, v \in RxValues : ReadChunk(p, v)
  \/ \E p \in Ports : ReadEnd(p)
  \/ DisconnectClick
  \/ \E p \in Ports, ok \in BOOLEAN : SendSettled(p, ok)
  \/ \E p \in Ports, ok \in BOOLEAN, relOk \in BOOLEAN :
       DisconnectWriteSettled(p, ok, relOk)
  \/ \E d \in Discs, ok \in BOOLEAN : CloseSettled(d, ok)

Spec == Init /\ [][Next]_vars

\* ------------------------------------------------- commands, all of them
\* A connected session (connect() has run to its end on port 1) with the
\* slider at any level; every motor button and Stop All is exercised.
InitCmd ==
  /\ isConnected = TRUE
  /\ port = 1
  /\ writer = 1
  /\ speed \in 0..MaxSpeed
  /\ log = <<Stamp(ConnectedText)>>
  /\ readerRef = 1
  /\ conn = [k \in Ports |-> IF k = 1 THEN "ok" ELSE "idle"]
  /\ disc = [d \in Discs |-> [pc |-> "idle", w |-> 0, p |-> 0, did |-> <<>>]]
  /\ popen = [p \in Ports |-> IF p = 1 THEN "open" ELSE "fresh"]
  /\ wlock = [p \in Ports |-> p = 1]
  /\ rlock = [p \in Ports |-> p = 1]
  /\ rl = [p \in Ports |-> IF p = 1 THEN "reading" ELSE "none"]
  /\ werr = [p \in Ports |-> FALSE]
  /\ queue = [p \in Ports |-> <<>>]
  /\ wire = [p \in Ports |-> <<>>]
  /\ calls = <<>>
  /\ nlog = 1
  /\ thrown = FALSE

CmdBudget == Len(calls) < MaxCmds

NextCmd ==
  \/ \E i \in AllMotors : CmdBudget /\ handleDown(i)
  \/ \E i \in AllMotors : CmdBudget /\ handleUp(i)
  \/ CmdBudget /\ StopAll

SpecCmd == InitCmd /\ [][NextCmd]_vars

\* ------------------------------------- requests, in range and out of it
\* The handlers as functions: handleDown(i), handleUp(i) and the slider's
\* onChange called with any argument, the ones the rendered buttons (1..9)
\* and the slider (0..255) pass and the ones just above them.
ReqIds == {1, NumMotors, NumMotors + 1}
ReqLevels == {0, MaxSpeed, MaxSpeed + 1}

InitReq == InitCmd /\ speed = InitSpeed

\* handleDown(i): sendLine(`ON ${i} ${speed}`).catch(() => {})
RunRequest(i) ==
  /\ CmdBudget
  /\ ButtonSend(EncodeRun(i, speed), Run(i, speed))

\* handleUp(i): sendLine(`OFF ${i}`).catch(() => {})
StopRequest(i) ==
  /\ CmdBudget
  /\ ButtonSend(EncodeStop(i), Stop(i))

NextReq ==
  \/ \E i \in ReqIds : RunRequest(i)
  \/ \E i \in ReqIds : StopRequest(i)
  \/ \E v \in ReqLevels : SetSpeed(v)
  \/ \E p \in Ports, ok \in BOOLEAN : SendSettled(p, ok)

SpecReq == InitReq /\ [][NextReq]_vars

\* ------------------------------------------------ the log at its cap
\* A connected session whose device has sent lines "1", "2", ... so that the
\* log holds LogKeep - 1, LogKeep or LogKeep + 1 entries.
FilledLog(n) ==
  [j \in 1..n |-> IF j = n THEN Stamp(ConnectedText)
                  ELSE Stamp(RxText(<<ToString(n - j)>>))]

InitLog ==
  /\ isConnected = TRUE
  /\ port = 1
  /\ writer = 1
  /\ speed = InitSpeed
  /\ \E n \in (LogKeep - 1)..(LogKeep + 1) : log = FilledLog(n)
  /\ readerRef = 1
  /\ conn = [k \in Ports |-> IF k = 1 THEN "ok" ELSE "idle"]
  /\ disc = [d \in Discs |-> [pc |-> "idle", w |-> 0, p |-> 0, did |-> <<>>]]
  /\ popen = [p \in Ports |-> IF p = 1 THEN "open" ELSE "fresh"]
  /\ wlock = [p \in Ports |-> p = 1]
  /\ rlock = [p \in Ports |-> p = 1]
  /\ rl = [p \in Ports |-> IF p = 1 THEN "reading" ELSE "none"]
  /\ werr = [p \in Ports |-> FALSE]
  /\ queue = [p \in Ports |-> <<>>]
  /\ wire = [p \in Ports |-> <<>>]
  /\ calls = <<>>
  /\ nlog = 0
  /\ thrown = FALSE

NextLog ==
  \/ \E p \in Ports, v \in RxValues : ReadChunk(p, v)
  \/ \E i \in Motors : handleDown(i)
  \/ \E i \in Motors : handleUp(i)
  \/ StopAll

SpecLog == InitLog /\ [][NextLog]_vars

\* ============================================================== claims
Reverse(q) == [j \in 1..Len(q) |-> q[Len(q) + 1 - j]]
Range(q) == {q[j] : j \in DOMAIN q}

\* An entry without its time stamp
Text(entry) == Tail(entry)
IsTx(entry) == Len(entry) >= 2 /\ entry[2] = "TX:"
\* The outbound entries of a log, oldest first, without their time stamps
Outbound(lg) == LET txs == SelectSeq(lg, IsTx)
                IN  Reverse([j \in 1..Len(txs) |-> Text(txs[j])])

DoneStates == {"closed", "closeFailed", "releaseThrew", "noPort"}
FailedStates == {"refused", "openFailed", "writerFailed", "readerFailed"}
Done(d) == disc[d].pc \in DoneStates
\* The sendLine calls made on writer w, in call order
HandedTo(w) == LET onW(c) == c.w = w IN SelectSeq(calls, onW)
\* The call that disconnect d made, if any
CallsOf(d) == {n \in DOMAIN calls : calls[n].d = d}
InQueue(n) == \E p \in Ports : \E j \in DOMAIN queue[p] : queue[p][j].n = n
OnWire(n) == \E p \in Ports : \E j \in DOMAIN wire[p] : wire[p][j].n = n
\* Call n is neither queued nor on the wire in the next state
GoneNext(n) ==
  \A p \in Ports :
    /\ \A j \in DOMAIN queue'[p] : queue'[p][j].n # n
    /\ \A j \in DOMAIN wire'[p] : wire'[p][j].n # n

\* C1: in a session that ended by disconnect(), the last command handed to
\* the transport's write channel is OFF ALL (no send is accepted once
\* disconnect() has issued its OFF ALL).
C1_LastHandedIsOffAll ==
  \A d \in Discs :
    Done(d) /\ disc[d].w # 0 =>
      /\ HandedTo(disc[d].w) # <<>>
      /\ HandedTo(disc[d].w)[Len(HandedTo(disc[d].w))].line = OffAll

\* C2: every disconnect() ends with isConnected false, no writer and no port,
\* whether or not the OFF ALL write succeeded and whether or not releasing the
\* reader's lock or closing the port raised.
C2_DisconnectEndsDisconnected ==
  [][\A d \in Discs :
       ~Done(d) /\ Done(d)' =>
         isConnected' = FALSE /\ writer' = 0 /\ port' = 0]_vars

C2_Witness ==
  \E d \in Discs :
    /\ disc[d].pc \in {"closeFailed", "releaseThrew"}
    /\ \E n \in CallsOf(d) : calls[n].st = "failed"
    /\ ~isConnected /\ writer = 0 /\ port = 0

\* C3: every disconnect() appends "TX: OFF ALL" before its "Disconnected."
\* entry: each finished disconnect() made its OFF ALL call, the log holds one
\* "Disconnected." per finished disconnect(), and below every "Disconnected."
\* there are at least as many "TX: OFF ALL" entries as there are
\* "Disconnected." entries from it downwards.
CountFrom(lg, j, text) ==
  Cardinality({i \in j..Len(lg) : Text(lg[i]) = text})

C3_OffAllBeforeDisconnected ==
  /\ \A d \in Discs : Done(d) =>
       \E n \in CallsOf(d) : calls[n].line = OffAll
  /\ CountFrom(log, 1, DisconnectedText) = Cardinality({d \in Discs : Done(d)})
  /\ \A j \in DOMAIN log :
       Text(log[j]) = DisconnectedText =>
         CountFrom(log, j + 1, TxText(OffAll))
           >= CountFrom(log, j, DisconnectedText)

C3_Witness ==
  /\ log # <<>> /\ Text(Head(log)) = DisconnectedText
  /\ \E d \in Discs :
       Done(d) /\ \E n \in CallsOf(d) : calls[n].st = "failed"

\* C4: a send invoked while disconnected throws "Not connected", hands
\* nothing to a write channel, appends no log entry and leaves the
\* connection state as it was.
C4_SendWhileDisconnected ==
  [][(~isConnected /\ \E i \in Motors : handleDown(i) \/ handleUp(i)) =>
       /\ thrown'
       /\ UNCHANGED <<queue, wire, calls, log, nlog, isConnected, port, writer>>
    ]_vars

C4_Witness == thrown /\ ~isConnected /\ writer = 0

\* C5: the outbound entries of the log are in call order: read from the
\* oldest to the newest they are the lines of the sendLine calls, in the order
\* of the calls, whatever writes are still pending, written or failed.
C5_OutboundInCallOrder ==
  Outbound(log) = [n \in DOMAIN calls |-> TxText(calls[n].line)]

C5_Witness ==
  /\ Len(calls) >= 2
  /\ calls[1].line = <<"ON", "1", "200">> /\ calls[1].st = "pending"
  /\ calls[2].line = <<"OFF", "1">>
  /\ IsTx(log[1]) /\ IsTx(log[2])

\* C6: writes are serialized in call order on each write channel: the chunks
\* the transport received followed by the chunks still queued are in call
\* order and carry the lines of their calls, a call is pending exactly while
\* its chunk is queued, and no call has settled while an earlier call on the
\* same writer is pending.
ChunkNumbers(p) ==
  [j \in DOMAIN wire[p] |-> wire[p][j].n] \o [j \in DOMAIN queue[p] |-> queue[p][j].n]

C6_WritesSerialized ==
  /\ \A p \in Ports :
       /\ \A i, j \in DOMAIN ChunkNumbers(p) :
            i < j => ChunkNumbers(p)[i] < ChunkNumbers(p)[j]
       /\ \A j \in DOMAIN wire[p] :
            /\ calls[wire[p][j].n].w = p
            /\ wire[p][j].bytes = calls[wire[p][j].n].line \o <<"\n">>
            /\ calls[wire[p][j].n].st = "written"
  /\ \A n \in DOMAIN calls :
       /\ calls[n].st = "pending" <=> InQueue(n)
       /\ calls[n].st = "written" <=> OnWire(n)
       /\ calls[n].st # "pending" =>
            \A m \in 1..(n - 1) :
              calls[m].w = calls[n].w => calls[m].st # "pending"

C6_Witness ==
  /\ Len(calls) >= 2
  /\ calls[1].line = <<"ON", "1", "200">> /\ calls[2].line = <<"OFF", "1">>
  /\ Len(wire[1]) = 2
  /\ wire[1][1].bytes = <<"ON", "1", "200", "\n">>
  /\ wire[1][2].bytes = <<"OFF", "1", "\n">>

\* C7: while connected, every button send appends exactly one outbound entry
\* and its line is the encoding of the intent: "ON id L" for a press of motor
\* id at drive level L, "OFF id" for a release, "OFF ALL" for Stop All; so a
\* press followed by a release appends "TX: ON id L" then "TX: OFF id".
Expected(cmd) ==
  IF cmd.kind = "Run"
  THEN <<"TX:", "ON", ToString(cmd.id), ToString(cmd.level)>>
  ELSE IF cmd.id = 0 THEN <<"TX:", "OFF", "ALL">>
       ELSE <<"TX:", "OFF", ToString(cmd.id)>>

C7_PressReleaseLines ==
  /\ Outbound(log) = [n \in DOMAIN calls |-> Expected(calls[n].cmd)]
  /\ \A n \in DOMAIN calls :
       /\ calls[n].cmd.id \in 0..9
       /\ calls[n].cmd.level \in 0..255
       /\ calls[n].cmd.kind = "Run" => calls[n].cmd.level = speed

C7_Witness ==
  /\ speed = 180
  /\ Len(calls) = 2
  /\ calls[1].cmd = Run(3, 180) /\ calls[2].cmd = Stop(3)
  /\ Text(log[2]) = <<"TX:", "ON", "3", "180">>
  /\ Text(log[1]) = <<"TX:", "OFF", "3">>
  /\ Len(log) = 3

\* C8: the log never holds more than 201 entries; every append puts the new
\* entry first and keeps the first 200 of the old entries in their order, so
\* appending to a log of 201 entries evicts exactly the oldest.
C8_LogRetention ==
  /\ [](Len(log) <= 201)
  /\ [][log' # log =>
          /\ Len(log') = Min(Len(log) + 1, 201)
          /\ \A j \in 1..(Len(log') - 1) : log'[j + 1] = log[j]
          /\ calls' # calls =>
               Text(Head(log')) = TxText(calls'[Len(calls')].line)
          /\ calls' = calls => Text(Head(log')) = <<"RX:", "ok">>
          /\ Head(log') = <<TimeOfDay>> \o Text(Head(log'))
     ]_vars

C8_Witness ==
  /\ Len(log) = 201
  /\ nlog >= 2
  /\ Text(log[201]) # ConnectedText
  /\ IsTx(Head(log))

\* C9: a connect() that fails leaves the connection disconnected, appends
\* exactly one connect-error entry, starts no read loop and is not retried.
C9_FailedConnectIsClean ==
  [][\A k \in Ports :
       conn[k] \in {"requestPort", "open"} /\ conn'[k] \in FailedStates =>
         /\ isConnected' = FALSE /\ writer' = 0 /\ port' = 0
         /\ Len(log') = Len(log) + 1
         /\ Text(Head(log'))[1] = "Connect error:"
         /\ rl' = rl
         /\ \A j \in Ports : j # k => conn'[j] = conn[j]]_vars

InRange(cmd) ==
  IF cmd.kind = "Run"
  THEN cmd.id \in 1..NumMotors /\ cmd.level \in 0..MaxSpeed
  ELSE cmd.id \in 0..NumMotors

Running == {p \in Ports : rl[p] = "reading"}

C12_OneReadLoop == Cardinality(Running) <= 1

\* q holds some of the elements of order, each at most once, in that order
InOrder(q, order) ==
  /\ \A i, j \in DOMAIN q : i < j =>
       \E a, b \in DOMAIN order : a < b /\ order[a] = q[i] /\ order[b] = q[j]
  /\ \A i \in DOMAIN q : q[i] \in Range(order)

\* C13: disconnect() takes its steps in the order: send OFF ALL, release the
\* reader's lock (which stops the read loop), release the writer's lock,
\* close the port, reset the state; so while the port's close is under way
\* neither the lock of the reader nor the lock of the writer is held.
C13_LocksReleasedBeforeClose ==
  \A d \in Discs :
    /\ InOrder(disc[d].did,
               <<"sendLine", "readerRelease", "writerRelease", "close", "reset">>)
    /\ disc[d].pc = "close" =>
         /\ disc[d].w # 0 => ~wlock[disc[d].w]
         /\ readerRef # 0 => ~rlock[readerRef]

\* C14: every cleanup step of disconnect() is attempted whatever the earlier
\* steps did: a finished disconnect() that held a port has called its close,
\* and one that held a writer has called its releaseLock.
C14_EveryCleanupAttempted ==
  \A d \in Discs :
    Done(d) =>
      /\ disc[d].p # 0 => "close" \in Range(disc[d].did)
      /\ disc[d].w # 0 => "writerRelease" \in Range(disc[d].did)

IsRx(entry) == Len(entry) >= 2 /\ entry[2] = "RX:"

\* C15: when a disconnect() has finished, the read loop of the connection it
\* closed has ended, and no inbound entry is logged after its
\* "Disconnected." entry (an inbound entry above a "Disconnected." entry
\* belongs to a connection made after it).
C15_NoInboundAfterDisconnected ==
  /\ \A d \in Discs :
       Done(d) /\ disc[d].p # 0 => rl[disc[d].p] # "reading"
  /\ \A i, j \in DOMAIN log :
       j < i /\ Text(log[i]) = DisconnectedText /\ IsRx(log[j]) =>
         \E c \in (j + 1)..(i - 1) : Text(log[c]) = ConnectedText

\* C16: when the read loop ends by end-of-stream or a read error (its read
\* settles while no disconnect() acts), nothing is appended to the log and
\* the connection state, the port and its write channel are left as they
\* were; a connection whose loop has ended still holds its writer, so sends
\* are accepted as before.
C16_ReadEndIsSilent ==
  /\ [](isConnected => SendGuard(writer))
  /\ [][\A p \in Ports :
          rl[p] = "reading" /\ rl'[p] = "ended" /\ disc' = disc =>
            /\ log' = log
            /\ UNCHANGED <<isConnected, port, writer, readerRef>>
            /\ UNCHANGED <<popen, wlock, rlock, werr, queue, wire, calls>>
     ]_vars

C16_Witness ==
  /\ isConnected /\ writer # 0
  /\ rl[writer] = "ended"
  /\ \A d \in Discs : disc[d].pc = "idle"
  /\ queue[writer] # <<>>
  /\ Len(log) = 2 /\ IsTx(Head(log))

\* C17: a change of the drive level changes nothing but the drive level (no
\* log entry, no chunk queued or written, no change of the connection state
\* or of the calls already made), and a Run line is built from the level at
\* the time of its press.
C17_SetSpeedOnlySetsSpeed ==
  [][/\ speed' # speed =>
          UNCHANGED <<isConnected, port, writer, log, readerRef, conn, disc,
                      popen, wlock, rlock, rl, werr, queue, wire, calls, nlog>>
     /\ Len(calls') > Len(calls) =>
          /\ speed' = speed
          /\ SubSeq(calls', 1, Len(calls)) = calls
          /\ LET c == calls'[Len(calls')]
             IN  c.cmd.kind = "Run" =>
                   /\ c.cmd.level = speed
                   /\ c.line = <<"ON", ToString(c.cmd.id), ToString(speed)>>
    ]_vars

C17_Witness ==
  /\ speed = MaxSpeed
  /\ Len(calls) = 2
  /\ calls[1].line = <<"ON", "1", "200">>
  /\ calls[2].line = <<"ON", "1", "255">>
  /\ Len(log) = 3

\* C18: in every reachable state isConnected is true exactly when a writer
\* is held, and a writer is held only when a port is held.
C18_FlagsAgree ==
  /\ isConnected <=> writer # 0
  /\ writer # 0 => port # 0

C18_Witness ==
  /\ ~isConnected /\ writer = 0 /\ port = 0
  /\ \E d \in Discs : Done(d) /\ disc[d].w # 0
  /\ \E n \in DOMAIN calls : calls[n].d = 0

\* C19: whenever the connection is disconnected and no connect() or
\* disconnect() is in progress, no port is open and no writer's lock is held.
Quiet == ~isConnected /\ InFlightConnects = {} /\ InFlightDisconnects = {}

C19_NoTransportLeaked ==
  Quiet => \A p \in Ports : popen[p] # "open" /\ ~wlock[p]

====
